---- MODULE Spec2Model ----
(***************************************************************************)
(* Model of the SpacetimeVisualizer component (both versions).             *)
(*                                                                         *)
(* Numbers.  A JavaScript number is modelled as a decimal fixed-point      *)
(* value: the integer v stands for the real v / Scale (three decimals).    *)
(* Slider values are multiples of 0.1 and are kept in state as the number  *)
(* of tenths.  Math.cos, Math.sin, Math.exp and Math.sqrt are computed to  *)
(* that precision.  Strings are sequences of one-character strings.        *)
(***************************************************************************)
EXTENDS Integers, Sequences, FiniteSets

VARIABLES
    timeValue,           \* useState(0), in tenths
    tensorValue,         \* useState(0), in tenths
    lambdaValue,         \* useState(0), in tenths
    warpBubbleStrength,  \* useState(0), in tenths
    rotationAngle,       \* useState(0), degrees
    mode,                \* useState('2d')
    visualMode,          \* useState('time')
    showMath,            \* useState(false)
    animating,           \* useState(false)
    animationFrame,      \* the effect closure's let animationFrame (0: undefined)
    pendingFrames,       \* ids of the animation-frame callbacks the browser holds
    points,              \* what the last sampling call returned (<<>>: none yet)
    lastOp               \* the handler or function that ran last

vars == <<timeValue, tensorValue, lambdaValue, warpBubbleStrength, rotationAngle,
          mode, visualMode, showMath, animating, animationFrame, pendingFrames,
          points, lastOp>>

params == <<timeValue, tensorValue, lambdaValue, warpBubbleStrength, rotationAngle,
            mode, visualMode, animating>>

----------------------------------------------------------------------------
(* Fixed-point arithmetic *)

Scale == 10 * 100

Abs(n) == IF n < 0 THEN -n ELSE n

\* a / b rounded to the nearest integer, halves away from zero (b > 0)
RoundDiv(a, b) == IF a < 0 THEN -((2 * (-a) + b) \div (2 * b))
                           ELSE (2 * a + b) \div (2 * b)

\* the product of two fixed-point values; the split keeps the partial
\* products inside the integer range
Mul(a, b) ==
    LET s  == IF (a < 0) = (b < 0) THEN 1 ELSE -1
        hi == (Abs(a) \div Scale) * Abs(b)
        lo == RoundDiv((Abs(a) % Scale) * Abs(b), Scale)
    IN s * (hi + lo)

\* the quotient of two fixed-point values (b # 0)
Div(a, b) ==
    LET s == IF (a < 0) = (b < 0) THEN 1 ELSE -1
    IN s * RoundDiv(Abs(a) * Scale, Abs(b))

\* the fixed-point value of an integer, and of a slider position in tenths
Real(n) == n * Scale
Tenths(k) == k * (Scale \div 10)

RECURSIVE SqrtSearch(_, _, _)
SqrtSearch(n, lo, hi) ==
    IF lo >= hi THEN lo
    ELSE LET mid == (lo + hi + 1) \div 2
         IN IF mid * mid <= n THEN SqrtSearch(n, mid, hi)
                              ELSE SqrtSearch(n, lo, mid - 1)

\* Math.sqrt of a fixed-point value v >= 0: the nearest fixed-point root
MathSqrt(v) ==
    LET n == v * Scale
        s == SqrtSearch(n, 0, 46340)
    IN IF n - s * s > s THEN s + 1 ELSE s

\* Math.pow(b, 2)
MathPow2(b) == Mul(b, b)

\* Math.PI
MathPI == 3142

RECURSIVE CosSeries(_, _, _)
\* 1 - w/(k(k-1)) * (1 - w/((k+2)(k+1)) * (...)), the cosine series in w = u^2
CosSeries(w, k, last) ==
    IF k > last THEN Scale
    ELSE Scale - RoundDiv(Mul(w, CosSeries(w, k + 2, last)), k * (k - 1))

\* Math.cos of a fixed-point angle in radians
MathCos(u) ==
    LET twoPi == 6283
        a == Abs(u) % twoPi
        b == IF a > twoPi \div 2 THEN twoPi - a ELSE a
        c == IF 2 * b > twoPi \div 2 THEN twoPi \div 2 - b ELSE b
        v == CosSeries(Mul(c, c), 2, 10)
    IN IF 2 * b > twoPi \div 2 THEN -v ELSE v

\* Math.sin of a fixed-point angle in radians
MathSin(u) == MathCos(u - 1571)

RECURSIVE ExpSeries(_, _, _)
\* 1 - f/k * (1 - f/(k+1) * (...)), the series of exp(-f)
ExpSeries(f, k, last) ==
    IF k > last THEN Scale
    ELSE Scale - RoundDiv(Mul(f, ExpSeries(f, k + 1, last)), k)

RECURSIVE ExpNegInt(_)
\* exp(-n) for a natural number n
ExpNegInt(n) == IF n = 0 THEN Scale ELSE Mul(368, ExpNegInt(n - 1))

\* Math.exp of a fixed-point value a <= 0
MathExp(a) ==
    LET q == -a
    IN IF q >= 8 * Scale THEN 0
       ELSE Mul(ExpNegInt(q \div Scale), ExpSeries(q % Scale, 1, 8))

----------------------------------------------------------------------------
(* Number formatting and parsing *)

Digit(d) == <<"0", "1", "2", "3", "4", "5", "6", "7", "8", "9">>[d + 1]

IsDigit(c) == c \in {Digit(d) : d \in 0..9}

DigitValue(c) == CHOOSE d \in 0..9 : Digit(d) = c

RECURSIVE IntDigits(_)
\* the decimal digits of a natural number
IntDigits(n) == IF n < 10 THEN <<Digit(n)>>
                ELSE Append(IntDigits(n \div 10), Digit(n % 10))

\* Number.prototype.toFixed(2): the nearest hundredth of the magnitude, the
\* larger one of two equally near, after a "-" when the number is below zero
ToFixed2(v) ==
    LET n == RoundDiv(Abs(v), Scale \div 100)
        s == IF v < 0 THEN <<"-">> ELSE <<>>
    IN s \o IntDigits(n \div 100) \o <<".", Digit((n \div 10) % 10), Digit(n % 10)>>

RECURSIVE StripZeros(_)
StripZeros(ds) == IF ds # <<>> /\ ds[Len(ds)] = "0"
                  THEN StripZeros(SubSeq(ds, 1, Len(ds) - 1)) ELSE ds

\* Number::toString, as a template literal applies it: no exponent in the
\* range of the samples, no fraction digits beyond the last non-zero one
NumberToString(v) ==
    LET m == Abs(v)
        f == m % Scale
        fd == StripZeros(<<Digit(f \div 100), Digit((f \div 10) % 10), Digit(f % 10)>>)
        s == IF v < 0 THEN <<"-">> ELSE <<>>
    IN s \o IntDigits(m \div Scale) \o (IF fd = <<>> THEN <<>> ELSE <<".">> \o fd)

RECURSIVE DigitsValue(_)
DigitsValue(ds) == IF ds = <<>> THEN 0
                   ELSE 10 * DigitsValue(SubSeq(ds, 1, Len(ds) - 1)) + DigitValue(ds[Len(ds)])

\* the position of the first c in s, or Len(s) + 1
IndexOf(s, c) == IF \E n \in 1..Len(s) : s[n] = c
                 THEN CHOOSE n \in 1..Len(s) : s[n] = c /\ \A m \in 1..(n - 1) : s[m] # c
                 ELSE Len(s) + 1

\* Number(string) of a decimal numeral, as a fixed-point value
ToNumber(str) ==
    LET neg  == str # <<>> /\ str[1] = "-"
        body == IF neg THEN SubSeq(str, 2, Len(str)) ELSE str
        dot  == IndexOf(body, ".")
        ip   == SubSeq(body, 1, dot - 1)
        fp   == SubSeq(body, dot + 1, Len(body))
        fp3  == SubSeq(fp \o <<"0", "0", "0">>, 1, 3)
        m    == DigitsValue(ip) * Scale + DigitsValue(fp3)
    IN IF neg THEN -m ELSE m

RECURSIVE Split(_, _)
\* String.prototype.split(c)
Split(s, c) ==
    LET n == IndexOf(s, c)
    IN IF n > Len(s) THEN <<s>>
       ELSE <<SubSeq(s, 1, n - 1)>> \o Split(SubSeq(s, n + 1, Len(s)), c)

----------------------------------------------------------------------------
(* The sampling functions of the component *)

sigma == 2
thickness == 1
resolution == 20

\* calculateWarpMetric with the bubble wall moved out by the thickness
calculateWarpMetricThick(x, y) ==
    LET R == MathSqrt(Mul(x, x) + Mul(y, y))
        shape == MathExp(RoundDiv(-MathPow2(R - Tenths(warpBubbleStrength) * 10
                                            - Real(thickness)),
                                  2 * sigma * sigma))
        energyDensity == Div(-Mul(Abs(Tenths(warpBubbleStrength)), shape), 8 * MathPI)
    IN [shape |-> shape, energyDensity |-> energyDensity]

\* Alcubierre warp metric calculation (simplified)
calculateWarpMetric(x, y) ==
    LET R == MathSqrt(Mul(x, x) + Mul(y, y))
        shape == MathExp(RoundDiv(-MathPow2(R - Tenths(warpBubbleStrength) * 10),
                                  2 * sigma * sigma))
        energyDensity == Div(-Mul(Abs(Tenths(warpBubbleStrength)), shape), 8 * MathPI)
    IN [shape |-> shape, energyDensity |-> energyDensity]

\* TimeTerm2D with the sign turned at zero as well
TimeTerm2DSignAtZero(x) ==
    RoundDiv(MathPow2(Real(x) - Tenths(timeValue)), 10)
        * (IF timeValue <= 0 THEN -1 ELSE 1)

\* (Math.pow(x - timeValue, 2) / 10) * (timeValue < 0 ? -1 : 1)
TimeTerm2D(x) ==
    RoundDiv(MathPow2(Real(x) - Tenths(timeValue)), 10)
        * (IF timeValue < 0 THEN -1 ELSE 1)

\* TensorTerm2D without the square
TensorTerm2DLinear(x) == RoundDiv(Mul(Tenths(tensorValue), Real(x)), 10)

\* tensorValue * Math.pow(x, 2) / 10
TensorTerm2D(x) == RoundDiv(Mul(Tenths(tensorValue), MathPow2(Real(x))), 10)

\* the y of the 2D sample at grid coordinate x
Y2D(x) ==
    IF visualMode = "warp"
    THEN Mul(calculateWarpMetric(Real(x), 0).shape, Tenths(warpBubbleStrength)) * 5
    ELSE IF visualMode = "time"
    THEN TimeTerm2D(x) + Mul(Tenths(lambdaValue), MathCos(RoundDiv(Real(x), 2)))
    ELSE TensorTerm2D(x) + Mul(Tenths(lambdaValue), MathSin(RoundDiv(Real(x), 2)))

\* generate2DData with the loop ended one step early
generate2DDataShort ==
    [n \in 1..20 |-> LET i == n - 11 IN [x |-> i, y |-> ToFixed2(Y2D(i))]]

\* Generate 2D data points with warp effects
generate2DData ==
    [n \in 1..21 |-> LET i == n - 11 IN [x |-> i, y |-> ToFixed2(Y2D(i))]]

\* Apply rotation: <<rotX, rotY>> of the grid coordinate (x, y)
Rotate(x, y) ==
    LET rad == RoundDiv(rotationAngle * MathPI, 180)
        c   == MathCos(rad)
        s   == MathSin(rad)
    IN <<x * c - y * s, x * s + y * c>>

\* the z of the 3D sample at grid coordinate (x, y)
Z3D(x, y) ==
    LET rot  == Rotate(x, y)
        rotX == rot[1]
        rotY == rot[2]
        r2   == Mul(rotX, rotX) + Mul(rotY, rotY)
        r    == MathSqrt(r2)
    IN IF visualMode = "warp"
       THEN Mul(calculateWarpMetric(rotX, rotY).shape, Tenths(warpBubbleStrength)) * 5
       ELSE IF visualMode = "time"
       THEN RoundDiv(MathPow2(r - Tenths(timeValue)), 5)
            + Mul(Tenths(lambdaValue), MathCos(RoundDiv(r, 2)))
       ELSE RoundDiv(Mul(Tenths(tensorValue), r2), 5)
            + Mul(Tenths(lambdaValue), MathSin(RoundDiv(r, 2)))

\* Point3D with z left unscaled
Point3DUnscaledZ(x, y) ==
    NumberToString(Real(x * resolution)) \o <<",">>
    \o NumberToString(Real(y * resolution)) \o <<",">>
    \o NumberToString(Z3D(x, y))

\* the template literal `${x*20},${y*20},${z*20}`
Point3D(x, y) ==
    NumberToString(Real(x * resolution)) \o <<",">>
    \o NumberToString(Real(y * resolution)) \o <<",">>
    \o NumberToString(Z3D(x, y) * resolution)

\* generate3DData with the two loops exchanged
generate3DDataColumnMajor ==
    [n \in 1..121 |-> Point3D(((n - 1) % 11) - 5, ((n - 1) \div 11) - 5)]

\* generate3DData with the points array kept from the call before
generate3DDataAccumulating ==
    (IF lastOp = "generate3DData" THEN points ELSE <<>>)
    \o [n \in 1..121 |-> Point3D(((n - 1) \div 11) - 5, ((n - 1) % 11) - 5)]

\* Generate 3D surface data with rotation and warp effects
generate3DData ==
    [n \in 1..121 |-> Point3D(((n - 1) \div 11) - 5, ((n - 1) % 11) - 5)]

----------------------------------------------------------------------------
(* generate3DData in exact arithmetic.  At the rotation angles that are    *)
(* multiples of 15 degrees the cosine and the sine lie in the number field *)
(* Q(sqrt 2, sqrt 3), in which the rotation, its squares and their sum are *)
(* computed without rounding.  An exact number is [n |-> <<a, b, c, d>>,   *)
(* d |-> q], standing for (a + b sqrt 2 + c sqrt 3 + d sqrt 6) / q.  The   *)
(* elementary functions are then applied to the exact argument.            *)

ExactAngles == {a \in 0..359 : a % 15 = 0}

\* the exact number of an integer
Exact(k) == [n |-> <<k, 0, 0, 0>>, d |-> 1]

\* p * q
ExactMul(p, q) ==
    [n |-> << p.n[1] * q.n[1] + 2 * p.n[2] * q.n[2] + 3 * p.n[3] * q.n[3]
                  + 6 * p.n[4] * q.n[4],
              p.n[1] * q.n[2] + p.n[2] * q.n[1] + 3 * (p.n[3] * q.n[4] + p.n[4] * q.n[3]),
              p.n[1] * q.n[3] + p.n[3] * q.n[1] + 2 * (p.n[2] * q.n[4] + p.n[4] * q.n[2]),
              p.n[1] * q.n[4] + p.n[4] * q.n[1] + p.n[2] * q.n[3] + p.n[3] * q.n[2] >>,
     d |-> p.d * q.d]

\* p + q and p - q, for p and q of the same denominator
ExactAdd(p, q) == [n |-> [k \in 1..4 |-> p.n[k] + q.n[k]], d |-> p.d]
ExactSub(p, q) == [n |-> [k \in 1..4 |-> p.n[k] - q.n[k]], d |-> p.d]

\* the fixed-point value nearest to p: p itself when p is a multiple of
\* 1 / Scale
ExactReal(p) ==
    RoundDiv(p.n[1] * Scale + p.n[2] * 1414 + p.n[3] * 1732 + p.n[4] * 2449, p.d)

\* Math.cos(rotationAngle * Math.PI / 180) without rounding, for a multiple
\* of 15 degrees
ExactCos(deg) ==
    LET a == deg % 360
        b == IF a > 180 THEN 360 - a ELSE a
        c == IF b > 90 THEN 180 - b ELSE b
        v == << <<4, 0, 0, 0>>, <<0, 1, 0, 1>>, <<0, 0, 2, 0>>, <<0, 2, 0, 0>>,
                <<2, 0, 0, 0>>, <<0, -1, 0, 1>>, <<0, 0, 0, 0>> >>[c \div 15 + 1]
    IN [n |-> IF b > 90 THEN [k \in 1..4 |-> -v[k]] ELSE v, d |-> 4]

\* Math.sin(rotationAngle * Math.PI / 180) without rounding
ExactSin(deg) == ExactCos(deg + 270)

\* RotateExact with the sign of the sine term lost
RotateExactSameSign(x, y) ==
    LET c == ExactCos(rotationAngle)
        s == ExactSin(rotationAngle)
    IN <<ExactAdd(ExactMul(Exact(x), c), ExactMul(Exact(y), s)),
         ExactAdd(ExactMul(Exact(x), s), ExactMul(Exact(y), c))>>

\* Apply rotation: <<rotX, rotY>> of the grid coordinate (x, y)
RotateExact(x, y) ==
    LET c == ExactCos(rotationAngle)
        s == ExactSin(rotationAngle)
    IN <<ExactSub(ExactMul(Exact(x), c), ExactMul(Exact(y), s)),
         ExactAdd(ExactMul(Exact(x), s), ExactMul(Exact(y), c))>>

\* calculateWarpMetric called with exact arguments
calculateWarpMetricExact(x, y) ==
    LET R == MathSqrt(ExactReal(ExactAdd(ExactMul(x, x), ExactMul(y, y))))
        shape == MathExp(RoundDiv(-MathPow2(R - Tenths(warpBubbleStrength) * 10),
                                  2 * sigma * sigma))
        energyDensity == Div(-Mul(Abs(Tenths(warpBubbleStrength)), shape), 8 * MathPI)
    IN [shape |-> shape, energyDensity |-> energyDensity]

\* the z of the 3D sample at grid coordinate (x, y)
Z3DExact(x, y) ==
    LET rot  == RotateExact(x, y)
        rotX == rot[1]
        rotY == rot[2]
        r2   == ExactReal(ExactAdd(ExactMul(rotX, rotX), ExactMul(rotY, rotY)))
        r    == MathSqrt(r2)
    IN IF visualMode = "warp"
       THEN Mul(calculateWarpMetricExact(rotX, rotY).shape, Tenths(warpBubbleStrength)) * 5
       ELSE IF visualMode = "time"
       THEN RoundDiv(MathPow2(r - Tenths(timeValue)), 5)
            + Mul(Tenths(lambdaValue), MathCos(RoundDiv(r, 2)))
       ELSE RoundDiv(Mul(Tenths(tensorValue), r2), 5)
            + Mul(Tenths(lambdaValue), MathSin(RoundDiv(r, 2)))

\* the template literal `${x*20},${y*20},${z*20}`
Point3DExact(x, y) ==
    NumberToString(Real(x * resolution)) \o <<",">>
    \o NumberToString(Real(y * resolution)) \o <<",">>
    \o NumberToString(Z3DExact(x, y) * resolution)

\* Generate 3D surface data with rotation and warp effects
generate3DDataExact ==
    [n \in 1..121 |-> Point3DExact(((n - 1) \div 11) - 5, ((n - 1) % 11) - 5)]

----------------------------------------------------------------------------
(* The first version of the component (spacetime-visualizer.tsx).  Its     *)
(* state is timeValue, tensorValue and mode ('time' or 'tensor'); its mode *)
(* is held in visualMode here.                                             *)

\* the y of the first version's sample at grid coordinate x
YData(x) ==
    IF visualMode = "time"
    THEN RoundDiv(MathPow2(Real(x) - Tenths(timeValue)), 10)
             * (IF timeValue < 0 THEN -1 ELSE 1)
    ELSE RoundDiv(Mul(Tenths(tensorValue), MathPow2(Real(x))), 10)

\* Generate data points for the visualization
generateData ==
    [n \in 1..21 |-> LET i == n - 11 IN [x |-> i, y |-> ToFixed2(YData(i))]]

----------------------------------------------------------------------------
(* The auto-rotation effect and the browser's animation frames *)

\* requestAnimationFrame: a handle no callback of the list `used` has
RequestAnimationFrame(used) ==
    CHOOSE id \in 1..(Cardinality(used) + 1) :
        id \notin used /\ \A k \in 1..(id - 1) : k \in used

\* a cleanup that cancels nothing
EffectCleanupNothing == pendingFrames

\* the effect's cleanup: cancelAnimationFrame(animationFrame)
EffectCleanup == pendingFrames \ {animationFrame}

\* AutoRotationEffect with the loop started in either view
AutoRotationEffectAnyView(a, m) ==
    LET left == EffectCleanup
        id   == RequestAnimationFrame(left)
    IN IF a
       THEN [animationFrame |-> id, pendingFrames |-> left \cup {id}]
       ELSE [animationFrame |-> 0, pendingFrames |-> left]

\* The effect, run after a render with new [animating, mode]: the cleanup of
\* the previous run, then the body with a fresh let animationFrame.  The
\* updates come from a click or a change handler, and React runs the effects
\* of such an update before the handler's task ends: no display refresh
\* falls between the state change and the effect.
AutoRotationEffect(a, m) ==
    LET left == EffectCleanup
        id   == RequestAnimationFrame(left)
    IN IF a /\ m = "3d"
       THEN [animationFrame |-> id, pendingFrames |-> left \cup {id}]
       ELSE [animationFrame |-> 0, pendingFrames |-> left]

\* RotationUpdater without the wrap
RotationUpdaterNoWrap(angle) == angle + 1

\* the updater animate passes to setRotationAngle
RotationUpdater(angle) == (angle + 1) % 360

RECURSIVE RunCallbacks(_, _)
\* The callbacks `todo` of one display refresh, run in turn on
\* st = [angle, handle, pending]: each is an animate closure, which queues
\* the updater and requests the next frame; the closure of the current effect
\* (the one whose handle the effect holds) stores the new handle.
RunCallbacks(todo, st) ==
    IF todo = {} THEN st
    ELSE LET cb   == CHOOSE c \in todo : \A d \in todo : c <= d
             rest == todo \ {cb}
             own  == cb = st.handle
             id   == RequestAnimationFrame(st.pending \cup rest
                                           \cup (IF own THEN {} ELSE {st.handle}))
         IN RunCallbacks(rest, [angle   |-> RotationUpdater(st.angle),
                                handle  |-> IF own THEN id ELSE st.handle,
                                pending |-> st.pending \cup {id}])

----------------------------------------------------------------------------
(* The handlers *)

MaxSlider == 1
MaxAngle == 3

RangeT == 100
RangeL == 50

VisualModes == {"time", "tensor", "warp"}
ViewModes == {"2d", "3d"}

\* the slider positions the handlers are tried with
SliderPositions == (-MaxSlider)..MaxSlider

sliders == <<timeValue, tensorValue, lambdaValue, warpBubbleStrength>>
effect == <<animationFrame, pendingFrames>>

Init ==
    /\ timeValue = 0
    /\ tensorValue = 0
    /\ lambdaValue = 0
    /\ warpBubbleStrength = 0
    /\ rotationAngle = 0
    /\ mode = "2d"
    /\ visualMode = "time"
    /\ showMath = FALSE
    /\ animating = FALSE
    /\ animationFrame = 0
    /\ pendingFrames = {}
    /\ points = <<>>
    /\ lastOp = "mount"

\* the animate button, disabled unless mode is '3d'
SetAnimating ==
    /\ mode = "3d"
    /\ animating' = ~animating
    /\ LET e == AutoRotationEffect(~animating, mode)
       IN /\ animationFrame' = e.animationFrame
          /\ pendingFrames' = e.pendingFrames
    /\ lastOp' = "setAnimating"
    /\ UNCHANGED <<sliders, rotationAngle, mode, visualMode, showMath, points>>

\* the info button
SetShowMath ==
    /\ showMath' = ~showMath
    /\ lastOp' = "setShowMath"
    /\ UNCHANGED <<sliders, rotationAngle, mode, visualMode, animating, effect, points>>

\* the Mode select
SetMode(m) ==
    /\ m # mode
    /\ mode' = m
    /\ LET e == AutoRotationEffect(animating, m)
       IN /\ animationFrame' = e.animationFrame
          /\ pendingFrames' = e.pendingFrames
    /\ lastOp' = "setMode"
    /\ UNCHANGED <<sliders, rotationAngle, visualMode, showMath, animating, points>>

\* the Visualization Type select
SetVisualMode(v) ==
    /\ v # visualMode
    /\ visualMode' = v
    /\ lastOp' = "setVisualMode"
    /\ UNCHANGED <<sliders, rotationAngle, mode, showMath, animating, effect, points>>

\* the Warp Bubble Strength slider, rendered in warp mode only
SetWarpBubbleStrength(v) ==
    /\ visualMode = "warp"
    /\ v # warpBubbleStrength
    /\ warpBubbleStrength' = v
    /\ lastOp' = "setWarpBubbleStrength"
    /\ UNCHANGED <<timeValue, tensorValue, lambdaValue, rotationAngle, mode,
                   visualMode, showMath, animating, effect, points>>

\* the Time Value slider, rendered outside warp mode only
SetTimeValue(v) ==
    /\ visualMode # "warp"
    /\ v # timeValue
    /\ timeValue' = v
    /\ lastOp' = "setTimeValue"
    /\ UNCHANGED <<tensorValue, lambdaValue, warpBubbleStrength, rotationAngle, mode,
                   visualMode, showMath, animating, effect, points>>

\* the Tensor Value slider, rendered outside warp mode only
SetTensorValue(v) ==
    /\ visualMode # "warp"
    /\ v # tensorValue
    /\ tensorValue' = v
    /\ lastOp' = "setTensorValue"
    /\ UNCHANGED <<timeValue, lambdaValue, warpBubbleStrength, rotationAngle, mode,
                   visualMode, showMath, animating, effect, points>>

\* the Cosmological Constant slider, rendered outside warp mode only
SetLambdaValue(v) ==
    /\ visualMode # "warp"
    /\ v # lambdaValue
    /\ lambdaValue' = v
    /\ lastOp' = "setLambdaValue"
    /\ UNCHANGED <<timeValue, tensorValue, warpBubbleStrength, rotationAngle, mode,
                   visualMode, showMath, animating, effect, points>>

\* A display refresh: the browser runs the animation-frame callbacks it holds,
\* and the component renders with the queued updaters applied.
AnimationFrame ==
    /\ pendingFrames # {}
    /\ LET st == RunCallbacks(pendingFrames,
                              [angle |-> rotationAngle, handle |-> animationFrame,
                               pending |-> {}])
       IN /\ rotationAngle' = st.angle
          /\ animationFrame' = st.handle
          /\ pendingFrames' = st.pending
    /\ lastOp' = "animate"
    /\ UNCHANGED <<sliders, mode, visualMode, showMath, animating, points>>

Input ==
    \/ SetShowMath
    \/ \E v \in VisualModes : SetVisualMode(v)
    \/ \E v \in SliderPositions : SetWarpBubbleStrength(v)
    \/ \E v \in SliderPositions : SetTimeValue(v)
    \/ \E v \in SliderPositions : SetTensorValue(v)
    \/ \E v \in SliderPositions : SetLambdaValue(v)

\* the component with every control; the rotation is followed for its first
\* MaxAngle degrees
Next ==
    \/ SetAnimating
    \/ \E m \in ViewModes : SetMode(m)
    \/ Input
    \/ rotationAngle < MaxAngle /\ AnimationFrame

Spec == Init /\ [][Next]_vars

\* the animate button, the Mode select and the display refreshes, through
\* the whole turn
NextRotation ==
    \/ SetAnimating
    \/ \E m \in ViewModes : SetMode(m)
    \/ AnimationFrame

SpecRotation == Init /\ [][NextRotation]_vars

----------------------------------------------------------------------------
(* The sampling functions as calls: the inputs are drawn from the states   *)
(* the component can be in, and each call leaves its return value in       *)
(* points.  A call is made in a state no call was made in yet, or is the   *)
(* sampling call just made, made again.                                    *)

LambdaStride == 10
AngleStride == 45

\* the slider positions from -range to range that the 2D samples are drawn at
Grid(range, stride) == {k \in (-range)..range : k % stride = 0 \/ Abs(k) = range}

\* the slider positions the 3D samples are drawn at
Grid3D(range) == {-range, range} \cup SliderPositions

\* the rotation angles the 3D samples are drawn at
AngleGrid == {a \in 0..359 : a % AngleStride = 0 \/ a = 359}

InitSample ==
    /\ showMath = FALSE
    /\ animating = FALSE
    /\ animationFrame = 0
    /\ pendingFrames = {}
    /\ points = <<>>
    /\ lastOp = "setShowMath"
    /\ mode \in ViewModes
    /\ visualMode \in VisualModes
    /\ rotationAngle \in (IF mode = "2d" THEN {0} ELSE AngleGrid)
    /\ timeValue \in (IF visualMode # "time" THEN {0}
                      ELSE IF mode = "2d" THEN (-RangeT)..RangeT ELSE Grid3D(RangeT))
    /\ tensorValue \in (IF visualMode # "tensor" THEN {0}
                        ELSE IF mode = "2d" THEN (-RangeT)..RangeT ELSE Grid3D(RangeT))
    /\ lambdaValue \in (IF visualMode = "warp" THEN {0}
                        ELSE IF mode = "2d" THEN Grid(RangeL, LambdaStride)
                        ELSE Grid3D(RangeL))
    /\ warpBubbleStrength \in (IF visualMode # "warp" THEN {0}
                               ELSE IF mode = "2d" THEN (-RangeT)..RangeT
                               ELSE Grid3D(RangeT))

\* data={generate2DData()}, the call of a render in '2d' mode
Generate2D ==
    /\ mode = "2d"
    /\ points = <<>> \/ lastOp = "generate2DData"
    /\ points' = generate2DData
    /\ lastOp' = "generate2DData"
    /\ UNCHANGED <<params, showMath, effect>>

\* generate3DData().map(...), the call of a render in '3d' mode
Generate3D ==
    /\ mode = "3d"
    /\ points = <<>> \/ lastOp = "generate3DData"
    /\ points' = generate3DData
    /\ lastOp' = "generate3DData"
    /\ UNCHANGED <<params, showMath, effect>>

\* data={generateData()}, the call of a render of the first version, whose
\* state has neither lambdaValue nor warpBubbleStrength
GenerateData ==
    /\ mode = "2d"
    /\ visualMode \in {"time", "tensor"}
    /\ lambdaValue = 0
    /\ points = <<>> \/ lastOp = "generateData"
    /\ points' = generateData
    /\ lastOp' = "generateData"
    /\ UNCHANGED <<params, showMath, effect>>

\* the arguments the sampling functions call calculateWarpMetric with
WarpMetricArguments ==
    IF mode = "2d" THEN {<<Real(x), 0>> : x \in (-10)..10}
    ELSE {Rotate(i, j) : i \in (-5)..5, j \in (-5)..5}

\* calculateWarpMetric(x, y), called in warp mode
CalculateWarpMetric(x, y) ==
    /\ visualMode = "warp"
    /\ points = <<>>
    /\ points' = [x |-> x, y |-> y, ret |-> calculateWarpMetric(x, y)]
    /\ lastOp' = "calculateWarpMetric"
    /\ UNCHANGED <<params, showMath, effect>>

NextSample ==
    \/ Generate2D
    \/ Generate3D
    \/ GenerateData
    \/ /\ visualMode = "warp" /\ points = <<>>
       /\ \E a \in WarpMetricArguments : CalculateWarpMetric(a[1], a[2])

SpecSample == InitSample /\ [][NextSample]_vars

\* the states of the '3d' view at the angles exact arithmetic is modelled for
InitExact ==
    /\ showMath = FALSE
    /\ animating = FALSE
    /\ animationFrame = 0
    /\ pendingFrames = {}
    /\ points = <<>>
    /\ lastOp = "setShowMath"
    /\ mode = "3d"
    /\ visualMode \in VisualModes
    /\ rotationAngle \in ExactAngles
    /\ timeValue \in (IF visualMode # "time" THEN {0} ELSE Grid3D(RangeT))
    /\ tensorValue \in (IF visualMode # "tensor" THEN {0} ELSE Grid3D(RangeT))
    /\ lambdaValue \in (IF visualMode = "warp" THEN {0} ELSE Grid3D(RangeL))
    /\ warpBubbleStrength \in (IF visualMode # "warp" THEN {0} ELSE Grid3D(RangeT))

\* generate3DData().map(...), the call of a render in '3d' mode, in exact
\* arithmetic
Generate3DExact ==
    /\ mode = "3d"
    /\ points = <<>>
    /\ points' = generate3DDataExact
    /\ lastOp' = "generate3DData"
    /\ UNCHANGED <<params, showMath, effect>>

NextExact == Generate3DExact

SpecExact == InitExact /\ [][NextExact]_vars

----------------------------------------------------------------------------
(* Properties of the sampling functions, checked under SpecSample *)

\* a numeral with two decimals: "-"? digits "." digit digit
IsFixed2(s) ==
    LET neg  == s # <<>> /\ s[1] = "-"
        body == IF neg THEN SubSeq(s, 2, Len(s)) ELSE s
        n    == Len(body)
    IN /\ n >= 4
       /\ body[n - 2] = "."
       /\ \A k \in (1..n) \ {n - 2} : IsDigit(body[k])
       /\ n > 4 => body[1] # "0"

Sampled2D == lastOp \in {"generate2DData", "generateData"}
Sampled3D == lastOp = "generate3DData"

\* C1: a 2D sampling call returns 21 records, the x of the n-th being the
\* integer -11 + n (so -10, ..., 10 in ascending order) and its y a string
\* with two decimals, in every visual mode and for every slider position.
C1_Sample2DContract ==
    Sampled2D =>
        /\ DOMAIN points = 1..21
        /\ \A n \in 1..21 :
            /\ DOMAIN points[n] = {"x", "y"}
            /\ points[n].x = n - 11
            /\ IsFixed2(points[n].y)

C1_Witness ==
    /\ lastOp = "generate2DData"
    /\ visualMode = "warp"
    /\ warpBubbleStrength = 3
    /\ points[8].y = <<"1", ".", "5", "0">>

\* the numbers of the record at 0-based index k of a 3D sample, as the svg
\* consumer reads them: point.split(',').map(Number)
Fields3D(k) ==
    LET f == Split(points[k + 1], ",") IN [n \in 1..Len(f) |-> ToNumber(f[n])]

\* C2: a 3D sampling call returns 121 records in row-major order: the record
\* at index i_index*11 + j_index belongs to (i, j) = (-5 + i_index,
\* -5 + j_index), and its first two numbers are 20*i and 20*j.
C2_RowMajor ==
    Sampled3D =>
        /\ DOMAIN points = 1..121
        /\ \A ii \in 0..10, jj \in 0..10 :
            LET f == Fields3D(ii * 11 + jj)
            IN /\ f[1] = Real(20 * (-5 + ii))
               /\ f[2] = Real(20 * (-5 + jj))

C2_Witness ==
    /\ Sampled3D
    /\ rotationAngle = 45
    /\ visualMode = "tensor"
    /\ SubSeq(points[13], 1, 7) = <<"-", "8", "0", ",", "-", "8", "0">>

\* whether the numbers f hold the triple t at consecutive places
Exposes(f, t) == \E n \in 1..(Len(f) - 2) : SubSeq(f, n, n + 2) = t

\* C3 as the specification states it: every record of a 3D sample exposes
\* the raw triple (i, j, z) and the scaled triple (20i, 20j, 20z).
C3_RawAndScaled ==
    Sampled3D =>
        \A i \in (-5)..5, j \in (-5)..5 :
            LET f == Fields3D((i + 5) * 11 + (j + 5))
            IN /\ Exposes(f, <<Real(i), Real(j), Z3D(i, j)>>)
               /\ Exposes(f, <<Real(20 * i), Real(20 * j), 20 * Z3D(i, j)>>)

\* C3, amended: every record of a 3D sample holds three numbers and no more,
\* the scaled triple (20i, 20j, 20z).
C3_ScaledOnly ==
    Sampled3D =>
        \A i \in (-5)..5, j \in (-5)..5 :
            Fields3D((i + 5) * 11 + (j + 5))
                = <<Real(20 * i), Real(20 * j), 20 * Z3D(i, j)>>

C3_Witness ==
    /\ Sampled3D
    /\ visualMode = "time"
    /\ timeValue = 0 /\ lambdaValue = 0 /\ rotationAngle = 0
    /\ points[1] = <<"-", "1", "0", "0", ",", "-", "1", "0", "0", ",", "2", "0", "0">>

\* C4: in 2D time mode with lambda = 0 the y emitted at grid x is
\* sign(t) * (x - t)^2 / 10 rounded to two decimals, sign(t) being -1 below
\* zero only: with t in tenths the exact value is sign(t) * (10x - t)^2
\* thousandths, and the emitted hundredths are nearest to it.  So y is "0.00"
\* at x = t, and "22.50" at t = 5, x = -10.
C4_TimeCurve ==
    (Sampled2D /\ visualMode = "time" /\ lambdaValue = 0) =>
        /\ \A n \in 1..21 :
            LET x     == n - 11
                sign  == IF timeValue < 0 THEN -1 ELSE 1
                exact == sign * (10 * x - timeValue) * (10 * x - timeValue)
                y     == ToNumber(points[n].y)
            IN /\ y % 10 = 0
               /\ Abs(y - exact) <= 5
               /\ 10 * x = timeValue => points[n].y = <<"0", ".", "0", "0">>
        /\ timeValue = 50 => points[1].y = <<"2", "2", ".", "5", "0">>

C4_Witness ==
    /\ lastOp = "generate2DData"
    /\ visualMode = "time" /\ lambdaValue = 0 /\ timeValue = -50
    /\ points[21].y = <<"-", "2", "2", ".", "5", "0">>
    /\ points[6].y = <<"0", ".", "0", "0">>

\* C5: in 2D tensor mode with lambda = 0 the sampled curve is even: the y
\* emitted at x is the y emitted at -x.
C5_TensorEven ==
    (Sampled2D /\ visualMode = "tensor" /\ lambdaValue = 0) =>
        \A n \in 1..21 : points[n].y = points[22 - n].y

C5_Witness ==
    /\ lastOp = "generate2DData"
    /\ visualMode = "tensor" /\ lambdaValue = 0 /\ tensorValue = -37
    /\ points[1].y = <<"-", "3", "7", ".", "0", "0">>
    /\ points[21].y = points[1].y

\* C6: with warp strength 0 the warp metric at the origin returns shape = 1
\* and energyDensity = 0.
C6_WarpMetricAtRest ==
    (lastOp = "calculateWarpMetric" /\ warpBubbleStrength = 0
        /\ points.x = 0 /\ points.y = 0) =>
        /\ points.ret.shape = Real(1)
        /\ points.ret.energyDensity = 0

C6_Witness ==
    /\ lastOp = "calculateWarpMetric"
    /\ warpBubbleStrength = 0
    /\ points.x = 0 /\ points.y = 0
    /\ mode = "3d" /\ rotationAngle = 45

ZOfRadius2(r2) ==
    LET r == MathSqrt(r2)
        t == Tenths(timeValue)
        T == Tenths(tensorValue)
        L == Tenths(lambdaValue)
        W == Tenths(warpBubbleStrength)
    IN IF visualMode = "warp"
       THEN Mul(MathExp(RoundDiv(-MathPow2(r - 10 * W), 8)), W) * 5
       ELSE IF visualMode = "time"
       THEN RoundDiv(MathPow2(r - t), 5) + Mul(L, MathCos(RoundDiv(r, 2)))
       ELSE RoundDiv(Mul(T, r2), 5) + Mul(L, MathSin(RoundDiv(r, 2)))

\* C11: in exact arithmetic the 3D sample does not depend on the rotation
\* angle: the record of grid point (i, j) holds the unrotated 20i and 20j,
\* and its z is, in each of the three modes, the value the mode's formula
\* takes at the squared distance i^2 + j^2, whatever the angle.  The sample
\* is thus determined by the other state fields alone, and two states that
\* differ only in the rotation angle produce the same 121 points.
C11_RotationIndependent ==
    Sampled3D =>
        /\ DOMAIN points = 1..121
        /\ \A i \in (-5)..5, j \in (-5)..5 :
            Fields3D((i + 5) * 11 + (j + 5))
                = <<Real(20 * i), Real(20 * j), 20 * ZOfRadius2(Real(i * i + j * j))>>

C11_Witness ==
    /\ Sampled3D
    /\ rotationAngle = 75
    /\ visualMode = "tensor" /\ tensorValue = 1 /\ lambdaValue = 0
    /\ points[1] = <<"-", "1", "0", "0", ",", "-", "1", "0", "0", ",", "2", "0">>

----------------------------------------------------------------------------
(* Properties of the auto-rotation *)

\* C8: an animation tick replaces the rotation angle by (angle + 1) mod 360,
\* so a tick at 359 wraps it to 0, and the angle is an integer in 0..359 in
\* every reachable state.
C8_RotationStep ==
    /\ [](rotationAngle \in 0..359)
    /\ [][lastOp' = "animate" =>
            rotationAngle' = IF rotationAngle = 359 THEN 0 ELSE rotationAngle + 1]_vars

C8_Witness == lastOp = "animate" /\ rotationAngle = 0

\* C9: at most one animation-frame callback is pending, and it is the one
\* whose handle the effect holds, so that the cleanup cancels it before a new
\* loop starts; the angle advances by at most 1 per display refresh.
C9_OneLoop ==
    /\ [](/\ Cardinality(pendingFrames) <= 1
          /\ pendingFrames \subseteq {animationFrame}
          /\ pendingFrames # {} <=> (animating /\ mode = "3d"))
    /\ [][rotationAngle' \in {rotationAngle, (rotationAngle + 1) % 360}]_vars

C9_Witness ==
    /\ lastOp = "setMode"
    /\ animating /\ mode = "3d"
    /\ rotationAngle = 200
    /\ pendingFrames # {}

\* C10: the rotation angle changes only in an animation tick fired while
\* animating is true and the view mode is '3d'; no slider, select or button
\* changes it, and while animating is off or the view is '2d' it keeps its
\* value.
C10_AngleChangesOnlyByTick ==
    [][rotationAngle' # rotationAngle =>
          /\ animating /\ mode = "3d"
          /\ lastOp' = "animate"
          /\ animating' /\ mode' = "3d"]_vars

C10_Witness ==
    /\ lastOp = "setTimeValue"
    /\ rotationAngle = 2
    /\ ~animating
    /\ mode = "2d"

====
